---- MODULE Spec2Model ----
(***************************************************************************)
(* A model of the bty crate: the Brand<Tag, Inner> container, the brand!   *)
(* declaration macro, the forwarded traits of src/lib.rs, the serde        *)
(* adapter of src/serde.rs and the sqlx adapter of src/sqlx.rs.            *)
(*                                                                         *)
(* Inner is instantiated at i32, the Inner type of the crate's own tests   *)
(* and of its documentation.  Text (Debug output, JSON, text-format column *)
(* values) is a sequence of one-character strings, so that formatting and  *)
(* parsing are computed character by character.                            *)
(***************************************************************************)
EXTENDS Integers, Sequences, FiniteSets, TLC

VARIABLES
    alias,   \* index into Items: the alias the program's variable x is declared with
    x,       \* the variable x: a Brand value, or Moved (uninitialised / moved out)
    written, \* history: the inner value last put into x by the program, or Moved
    mutated, \* history: that value was written through as_mut
    op,      \* the operation executed last
    arg,     \* its input
    out      \* what it returned

vars == <<alias, x, written, mutated, op, arg, out>>

----------------------------------------------------------------------------
(* Bounds of the model. *)

MaxVal == 10        \* Inner values range over -MaxVal .. MaxVal
MaxWire == 2        \* longest raw wire / text column value fed to a decoder
MaxStrLen == 2      \* longest plain `other` string of the Test structure

Vals == (0 - MaxVal) .. MaxVal

Moved == <<>>

----------------------------------------------------------------------------
(* Text helpers. *)

RECURSIVE SeqsUpTo(_, _)
SeqsUpTo(S, n) ==
    IF n = 0 THEN {<<>>}
    ELSE LET shorter == SeqsUpTo(S, n - 1)
         IN shorter \cup {Append(s, c) : s \in shorter, c \in S}

Digits == <<"0", "1", "2", "3", "4", "5", "6", "7", "8", "9">>

IsDigit(c) == \E i \in 1..Len(Digits) : Digits[i] = c

DigitVal(c) == (CHOOSE i \in 1..Len(Digits) : Digits[i] = c) - 1

----------------------------------------------------------------------------
(* brand! : the declaration macro (lib.rs 38-61). *)

\* The declarations handed to one brand! invocation: `$vis type $tag = $inner;`
Decls ==
    << [vis |-> "",    tag |-> <<"T", "e", "s", "t", "I", "d">>, inner |-> "i32"],
       [vis |-> "pub", tag |-> <<"U", "s", "e", "r", "I", "d">>, inner |-> "i32"] >>

\* [< Branded $tag Tag >]
MarkerIdent(tag) == <<"B", "r", "a", "n", "d", "e", "d">> \o tag \o <<"T", "a", "g">>

\* One repetition of the macro body: the marker struct, its Tag impl and the alias.
BrandItem(d) ==
    [ marker   |-> [vis |-> d.vis, ident |-> MarkerIdent(d.tag)],
      TAG_NAME |-> d.tag,
      alias    |-> [vis |-> d.vis, ident |-> d.tag,
                    ty |-> [Tag |-> MarkerIdent(d.tag), Inner |-> d.inner]] ]

brand(decls) == [i \in 1..Len(decls) |-> BrandItem(decls[i])]

Items == brand(Decls)

\* The Tag parameter of alias number a, and its TAG_NAME constant.
TagOf(a) == Items[a].alias.ty.Tag

\* <Tag as crate::Tag>::TAG_NAME = stringify!($tag)
TAG_NAME(tag) == Items[CHOOSE i \in 1..Len(Items) : Items[i].marker.ident = tag].TAG_NAME

----------------------------------------------------------------------------
(* Inner = i32: the operations of the Inner type that Brand delegates to. *)

Some(v) == <<"Some", v>>
None == <<"None">>
Ok(v) == <<"Ok", v>>
Err(e) == <<"Err", e>>

i32_default == 0

i32_eq(a, b) == a = b

i32_cmp(a, b) == IF a < b THEN "Less" ELSE IF a = b THEN "Equal" ELSE "Greater"

i32_partial_cmp(a, b) == Some(i32_cmp(a, b))

\* Hasher::write_i32, as a log of the calls the hasher received.
i32_hash(v, state) == Append(state, <<"write_i32", v>>)

RECURSIVE DecimalDigits(_)
DecimalDigits(n) ==
    IF n < 10 THEN <<Digits[n + 1]>>
    ELSE Append(DecimalDigits(n \div 10), Digits[(n % 10) + 1])

\* Display for i32 (also its Debug when no hex flag is set).
i32_to_string(v) == IF v < 0 THEN <<"-">> \o DecimalDigits(0 - v) ELSE DecimalDigits(v)

\* A Formatter: the alternate flag (`#`) and the text written so far.
Formatter(alternate) == [alternate |-> alternate, buf |-> <<>>]

write_str(f, s) == [f EXCEPT !.buf = @ \o s]

i32_fmt(v, f) == write_str(f, i32_to_string(v))

\* core::fmt::builders::PadAdapter: four spaces at the start of every line.
RECURSIVE PadLines(_, _)
PadLines(s, on_newline) ==
    IF s = <<>> THEN <<>>
    ELSE (IF on_newline THEN <<" ", " ", " ", " ">> ELSE <<>>)
         \o <<Head(s)>> \o PadLines(Tail(s), Head(s) = "\n")

\* Formatter::debug_tuple / DebugTuple::field / DebugTuple::finish
debug_tuple(f, name) ==
    [fmt |-> write_str(f, name), fields |-> 0, empty_name |-> name = <<>>]

field_i32(b, value) ==
    LET f == b.fmt
        written_ == IF f.alternate
                    THEN LET open  == IF b.fields = 0 THEN write_str(f, <<"(", "\n">>) ELSE f
                             inner == i32_fmt(value, Formatter(TRUE)).buf
                         IN write_str(write_str(open, PadLines(inner, TRUE)), <<",", "\n">>)
                    ELSE i32_fmt(value,
                                 write_str(f, IF b.fields = 0 THEN <<"(">> ELSE <<",", " ">>))
    IN [b EXCEPT !.fmt = written_, !.fields = @ + 1]

finish(b) ==
    IF b.fields > 0
    THEN LET f == IF b.fields = 1 /\ b.empty_name /\ ~b.fmt.alternate
                  THEN write_str(b.fmt, <<",">>) ELSE b.fmt
         IN write_str(f, <<")">>)
    ELSE b.fmt

----------------------------------------------------------------------------
(* Brand<Tag, Inner> (lib.rs 75-157). *)

\* struct Brand { inner: Inner, tag: PhantomData<Tag> }
Brand(Tag, inner) == [inner |-> inner, tag |-> Tag]

into_inner(self) == self.inner

\* a constructor that validates: a negative identifier is replaced by 0
unchecked_from_inner_validating(Tag, inner) == Brand(Tag, IF inner < 0 THEN 0 ELSE inner)

unchecked_from_inner(Tag, inner) == Brand(Tag, inner)

\* a Debug that names the marker struct instead of the alias
fmt_marker_name(self, f) == finish(field_i32(debug_tuple(f, self.tag), self.inner))

fmt(self, f) == finish(field_i32(debug_tuple(f, TAG_NAME(self.tag)), self.inner))

\* a default that starts identifiers at 1
default_nonzero(Tag) == unchecked_from_inner(Tag, 1)

default(Tag) == unchecked_from_inner(Tag, i32_default)

eq(self, other) == i32_eq(self.inner, other.inner)

\* a partial_cmp with its operands swapped
partial_cmp_swapped(self, other) == i32_partial_cmp(other.inner, self.inner)

partial_cmp(self, other) == i32_partial_cmp(self.inner, other.inner)

\* PartialOrd::lt, the provided method behind `<`
lt(self, other) == partial_cmp(self, other) = Some("Less")

cmp(self, other) == i32_cmp(self.inner, other.inner)

\* a hash that also feeds the marker's name to the hasher
hash_with_tag(self, state) == i32_hash(self.inner, Append(state, <<"write_str", self.tag>>))

hash(self, state) == i32_hash(self.inner, state)

\* as_ref / as_mut return a reference: the place inside self it points to.
as_ref(self) == "inner"

as_mut(self) == "inner"

Deref(self, place) == self[place]

\* a reference to a copy of the field: the write never reaches self
Store_copy(self, place, v) == self

Store(self, place, v) == [self EXCEPT ![place] = v]

----------------------------------------------------------------------------
(* serde, with serde_json as the format (serde.rs).                        *)
(* A Serializer is the text written so far; a Deserializer is the input    *)
(* not yet consumed.  A deserialize returns [res, de]: Ok(value) or        *)
(* Err(error), and the deserializer afterwards.                            *)

I32_MAX == 2147483647

Quote == "\""
Backslash == "\\"

\* serde_json::Serializer::serialize_i32 (itoa)
i32_serialize(v, serializer) == Ok(serializer \o i32_to_string(v))

\* serde_json format_escaped_str_contents, for the characters of StrChars
RECURSIVE EscapeStr(_)
EscapeStr(s) ==
    IF s = <<>> THEN <<>>
    ELSE (IF Head(s) \in {Quote, Backslash} THEN <<Backslash, Head(s)>> ELSE <<Head(s)>>)
         \o EscapeStr(Tail(s))

String_serialize(s, serializer) == Ok(serializer \o <<Quote>> \o EscapeStr(s) \o <<Quote>>)

\* Deserializer::parse_integer's digit loop: the digits at the front of s.
RECURSIVE TakeDigits(_)
TakeDigits(s) ==
    IF s # <<>> /\ IsDigit(Head(s)) THEN <<Head(s)>> \o TakeDigits(Tail(s)) ELSE <<>>

RECURSIVE DigitsValue(_)
DigitsValue(ds) ==
    IF ds = <<>> THEN 0
    ELSE 10 * DigitsValue(SubSeq(ds, 1, Len(ds) - 1)) + DigitVal(ds[Len(ds)])

Drop(s, n) == SubSeq(s, n + 1, Len(s))

\* serde_json Deserializer::deserialize_i32 -> parse_integer -> visit_i64 / visit_u64
i32_deserialize(de) ==
    LET positive == de = <<>> \/ Head(de) # "-"
        body     == IF positive THEN de ELSE Tail(de)
        ds       == TakeDigits(body)
        rest     == Drop(body, Len(ds))
        n        == DigitsValue(ds)
    IN  IF de = <<>> THEN [res |-> Err("EofWhileParsingValue"), de |-> de]
        ELSE IF positive /\ ~IsDigit(Head(de))
             THEN [res |-> Err("ExpectedSomeValue"), de |-> de]
        ELSE IF body = <<>> THEN [res |-> Err("EofWhileParsingValue"), de |-> body]
        ELSE IF ds = <<>> THEN [res |-> Err("InvalidNumber"), de |-> body]
        ELSE IF Head(ds) = "0" /\ Len(ds) > 1
             THEN [res |-> Err("InvalidNumber"), de |-> Tail(body)]
        ELSE IF ~positive /\ n = 0
             THEN [res |-> Err("invalid type: floating point, expected i32"), de |-> rest]
        ELSE IF (positive /\ n > I32_MAX) \/ (~positive /\ n - 1 > I32_MAX)
             THEN [res |-> Err("invalid value: integer, expected i32"), de |-> rest]
        ELSE [res |-> Ok(IF positive THEN n ELSE 0 - n), de |-> rest]

\* serde_json parse_str: the contents up to the closing quote, escapes undone.
RECURSIVE ParseStrContents(_, _)
ParseStrContents(s, acc) ==
    IF s = <<>> THEN [res |-> Err("EofWhileParsingString"), de |-> s]
    ELSE IF Head(s) = Quote THEN [res |-> Ok(acc), de |-> Tail(s)]
    ELSE IF Head(s) = Backslash
         THEN IF Len(s) < 2 THEN [res |-> Err("EofWhileParsingString"), de |-> Tail(s)]
              ELSE IF s[2] \in {Quote, Backslash}
                   THEN ParseStrContents(Drop(s, 2), Append(acc, s[2]))
              ELSE [res |-> Err("InvalidEscape"), de |-> Drop(s, 2)]
    ELSE ParseStrContents(Tail(s), Append(acc, Head(s)))

String_deserialize(de) ==
    IF de = <<>> THEN [res |-> Err("EofWhileParsingValue"), de |-> de]
    ELSE IF Head(de) # Quote THEN [res |-> Err("invalid type, expected a string"), de |-> de]
    ELSE ParseStrContents(Tail(de), <<>>)

\* serde_json::from_str's Deserializer::end: nothing may follow the value.
End(r) ==
    IF r.res[1] = "Ok" /\ r.de # <<>> THEN Err("TrailingCharacters") ELSE r.res

\* what #[derive(Serialize)] on Brand would write: both fields, as a map
serialize_derived(self, serializer) ==
    Ok(i32_serialize(self.inner, serializer \o <<"{", Quote, "i", "n", "n", "e", "r", Quote, ":">>)[2]
       \o <<",", Quote, "t", "a", "g", Quote, ":", "n", "u", "l", "l", "}">>)

\* impl Serialize for Brand (serde.rs 5-15)
serialize(self, serializer) == i32_serialize(self.inner, serializer)

\* Result::map(Self::unchecked_from_inner)
MapBrand(Tag, r) ==
    [res |-> IF r.res[1] = "Ok" THEN Ok(unchecked_from_inner(Tag, r.res[2])) ELSE r.res,
     de  |-> r.de]

\* impl Deserialize for Brand (serde.rs 17-27)
deserialize(Tag, deserializer) == MapBrand(Tag, i32_deserialize(deserializer))

\* serde_json::to_string(&x) and serde_json::from_str::<Alias>(w)
to_string(self) == serialize(self, <<>>)[2]

from_str(Tag, w) == End(deserialize(Tag, w))

i32_to_string_json(v) == i32_serialize(v, <<>>)[2]

i32_from_str(w) == End(i32_deserialize(w))

\* struct Test { id: TestId, other: String } of the adapter's test (serde.rs 37-41),
\* and #[derive(Serialize)] on it.
Test(id, other) == [id |-> id, other |-> other]

KeyId == <<Quote, "i", "d", Quote, ":">>
KeyOther == <<Quote, "o", "t", "h", "e", "r", Quote, ":">>

Test_open(serializer) == serializer \o <<"{">> \o KeyId

Test_close(a, other) ==
    Ok(String_serialize(other, a \o <<",">> \o KeyOther)[2] \o <<"}">>)

Test_serialize(t, serializer) ==
    Test_close(serialize(t.id, Test_open(serializer))[2], t.other)

\* the same structure with `id: i32`
PlainTest_serialize(t, serializer) ==
    Test_close(i32_serialize(t.id, Test_open(serializer))[2], t.other)

\* #[derive(Deserialize)] on Test over serde_json's MapAccess: the members in any
\* order, each field once; the id field is a Brand<Tag, i32>.  A key that is no field
\* of Test does not occur in what Test_serialize writes and is not modelled.
RECURSIVE Test_members(_, _, _, _, _)
Test_members(s, first, id, other, Tag) ==
    IF s = <<>> THEN Err("EofWhileParsingObject")
    ELSE IF Head(s) = "}"
         THEN IF id = None THEN Err("missing field id")
              ELSE IF other = None THEN Err("missing field other")
              ELSE End([res |-> Ok(Test(id[2], other[2])), de |-> Tail(s)])
    ELSE IF ~first /\ Head(s) # "," THEN Err("ExpectedObjectCommaOrEnd")
    ELSE LET m == IF first THEN s ELSE Tail(s)
             k == String_deserialize(m)
         IN  IF m = <<>> THEN Err("EofWhileParsingValue")
             ELSE IF Head(m) # Quote THEN Err("KeyMustBeAString")
             ELSE IF k.res[1] = "Err" THEN k.res
             ELSE IF k.de = <<>> THEN Err("EofWhileParsingObject")
             ELSE IF Head(k.de) # ":" THEN Err("ExpectedColon")
             ELSE IF k.res[2] = <<"i", "d">>
                  THEN LET v == deserialize(Tag, Tail(k.de))
                       IN IF id # None THEN Err("duplicate field id")
                          ELSE IF v.res[1] = "Err" THEN v.res
                          ELSE Test_members(v.de, FALSE, Some(v.res[2]), other, Tag)
             ELSE IF k.res[2] = <<"o", "t", "h", "e", "r">>
                  THEN LET v == String_deserialize(Tail(k.de))
                       IN IF other # None THEN Err("duplicate field other")
                          ELSE IF v.res[1] = "Err" THEN v.res
                          ELSE Test_members(v.de, FALSE, id, Some(v.res[2]), Tag)
             ELSE Err("unknown field")

Test_deserialize(Tag, de) ==
    IF de = <<>> THEN Err("EofWhileParsingValue")
    ELSE IF Head(de) # "{" THEN Err("invalid type, expected struct Test")
    ELSE Test_members(Tail(de), TRUE, None, None, Tag)

\* test_serialize_deserialize (serde.rs 43-55): to_string(&t), then from_str(&json)
Test_to_string(t) == Test_serialize(t, <<>>)[2]

Test_from_str(Tag, json) == Test_deserialize(Tag, json)

\* the same structure with a plain i32 id
PlainTest_to_string(t) == PlainTest_serialize(t, <<>>)[2]

----------------------------------------------------------------------------
(* sqlx (sqlx.rs): Type, Decode and Encode for the databases of sqlx-core.  *)
(* A ValueRef is [db, format, bytes, text]; a NULL column has format "Null". *)

Dbs == {"Postgres", "MySql", "Sqlite"}

TypeInfos(db) ==
    CASE db = "Postgres" -> {"INT2", "INT4", "INT8", "TEXT"}
      [] db = "MySql"    -> {"TINYINT", "SMALLINT", "MEDIUMINT", "INT", "BIGINT",
                             "INT UNSIGNED", "VARCHAR"}
      [] db = "Sqlite"   -> {"INTEGER", "BIGINT", "TEXT"}

\* <i32 as Type<Db>>::type_info
i32_type_info(db) ==
    CASE db = "Postgres" -> "INT4"
      [] db = "MySql"    -> "INT"
      [] db = "Sqlite"   -> "INTEGER"

\* <i32 as Type<Db>>::compatible: Postgres keeps the provided method, MySql and
\* Sqlite override it.
i32_compatible(db, ty) ==
    CASE db = "Postgres" -> ty = i32_type_info(db)
      [] db = "MySql"    -> ty \in {"TINYINT", "SMALLINT", "MEDIUMINT", "INT", "BIGINT"}
      [] db = "Sqlite"   -> ty \in {"INTEGER", "BIGINT"}

\* i32::to_be_bytes / to_le_bytes / from_be_bytes in two's complement
BytesOfNat(n) ==
    <<(n \div 16777216) % 256, (n \div 65536) % 256, (n \div 256) % 256, n % 256>>

to_be_bytes(v) ==
    IF v >= 0 THEN BytesOfNat(v)
    ELSE LET m == BytesOfNat(0 - (v + 1)) IN [i \in 1..4 |-> 255 - m[i]]

Reverse(s) == [i \in 1..Len(s) |-> s[Len(s) + 1 - i]]

to_le_bytes(v) == Reverse(to_be_bytes(v))

NatOfBytes(b) == ((b[1] * 256 + b[2]) * 256 + b[3]) * 256 + b[4]

from_be_bytes(b) ==
    IF b[1] < 128 THEN NatOfBytes(b)
    ELSE 0 - NatOfBytes([i \in 1..4 |-> 255 - b[i]]) - 1

\* <i32 as FromStr>::from_str: an optional sign, then at least one digit
i32_parse(s) ==
    LET signed == s # <<>> /\ Head(s) \in {"-", "+"}
        body   == IF signed THEN Tail(s) ELSE s
        n      == DigitsValue(body)
        neg    == signed /\ Head(s) = "-"
    IN  IF s = <<>> THEN Err("ParseIntError: Empty")
        ELSE IF body = <<>> \/ TakeDigits(body) # body THEN Err("ParseIntError: InvalidDigit")
        ELSE IF ~neg /\ n > I32_MAX THEN Err("ParseIntError: PosOverflow")
        ELSE IF neg /\ n - 1 > I32_MAX THEN Err("ParseIntError: NegOverflow")
        ELSE Ok(IF neg THEN 0 - n ELSE n)

\* <i32 as Decode<Db>>::decode
i32_decode(value) ==
    CASE value.db = "Sqlite" ->
             Ok(IF value.format = "Null" THEN 0 ELSE value.bytes[1])
      [] value.db # "Sqlite" /\ value.format = "Null" -> Err("UnexpectedNullError")
      [] value.db # "Sqlite" /\ value.format = "Text" -> i32_parse(value.text)
      [] value.db = "Postgres" /\ value.format = "Binary" -> Ok(from_be_bytes(value.bytes))
      [] value.db = "MySql" /\ value.format = "Binary" ->
             Ok(from_be_bytes(Reverse(value.bytes)))

\* <i32 as Encode<Db>>::encode_by_ref: the argument buffer afterwards and IsNull
i32_encode_by_ref(v, db, buf) ==
    [buf |-> CASE db = "Postgres" -> buf \o to_be_bytes(v)
               [] db = "MySql"    -> buf \o to_le_bytes(v)
               [] db = "Sqlite"   -> Append(buf, <<"Int", v>>),
     is_null |-> "No"]

\* impl Type<Db> for Brand (sqlx.rs 12-20)
type_info(db) == i32_type_info(db)

\* Type::compatible, the provided method: the impl for Brand defines type_info only
compatible(db, ty) == ty = type_info(db)

\* a decode that turns Inner's failure into the default Brand
decode_err_as_default(Tag, value) ==
    LET inner == i32_decode(value)
    IN Ok(unchecked_from_inner(Tag, IF inner[1] = "Err" THEN i32_default ELSE inner[2]))

\* impl Decode<Db> for Brand (sqlx.rs 22-31)
decode(Tag, value) ==
    LET inner == i32_decode(value)
    IN IF inner[1] = "Err" THEN inner ELSE Ok(unchecked_from_inner(Tag, inner[2]))

\* impl Encode<Db> for Brand (sqlx.rs 33-41)
encode_by_ref(self, db, buf) == i32_encode_by_ref(self.inner, db, buf)

----------------------------------------------------------------------------
(* The program: one variable x of a branded alias, and the operations on it. *)

HasherStates == {<<>>, << <<"write_u8", 1>> >>}

\* Raw inputs of the decoders: JSON text and text-format column values.
WireChars == {"-", "0", "1", "x"}
RawWires == SeqsUpTo(WireChars, MaxWire)

\* Plain strings of the Test structure, the test's own among them.
StrChars == {"á", Quote, Backslash}
Others == SeqsUpTo(StrChars, MaxStrLen) \cup {<<"o", "l", "á">>}

ArgumentBuffers == {<<>>, <<7>>}

ValueRef(db, format, bytes, text) ==
    [db |-> db, format |-> format, bytes |-> bytes, text |-> text]

ValueRefs ==
    {ValueRef(db, "Null", <<>>, <<>>) : db \in Dbs}
    \cup {ValueRef("Postgres", "Binary", to_be_bytes(v), <<>>) : v \in Vals}
    \cup {ValueRef("MySql", "Binary", to_le_bytes(v), <<>>) : v \in Vals}
    \cup {ValueRef("Postgres", "Text", <<>>, w) : w \in RawWires}
    \cup {ValueRef("Sqlite", "Int", <<v>>, <<>>) : v \in Vals}

Init ==
    /\ alias \in 1..Len(Items)
    /\ x = Moved
    /\ written = Moved
    /\ mutated = FALSE
    /\ op = "init"
    /\ arg = Moved
    /\ out = Moved

\* let x = Alias::unchecked_from_inner(v);
UncheckedFromInner ==
    \E v \in Vals :
        /\ x' = unchecked_from_inner(TagOf(alias), v)
        /\ written' = v /\ mutated' = FALSE
        /\ op' = "unchecked_from_inner" /\ arg' = v /\ out' = x'
        /\ UNCHANGED alias

\* let x = Alias::default();
Default ==
    /\ x' = default(TagOf(alias))
    /\ written' = i32_default /\ mutated' = FALSE
    /\ op' = "default" /\ arg' = Moved /\ out' = x'
    /\ UNCHANGED alias

\* let v = x.into_inner();
IntoInner ==
    /\ x # Moved
    /\ out' = into_inner(x)
    /\ x' = Moved
    /\ written' = Moved /\ mutated' = FALSE
    /\ op' = "into_inner" /\ arg' = written
    /\ UNCHANGED alias

\* let v = *x.as_ref();
AsRef ==
    /\ x # Moved
    /\ out' = Deref(x, as_ref(x))
    /\ op' = "as_ref" /\ arg' = Moved
    /\ UNCHANGED <<alias, x, written, mutated>>

\* *x.as_mut() = v;
AsMut ==
    \E v \in Vals :
        /\ x # Moved
        /\ x' = Store(x, as_mut(x), v)
        /\ written' = v /\ mutated' = TRUE
        /\ op' = "as_mut" /\ arg' = v /\ out' = Moved
        /\ UNCHANGED alias

\* x == y, x.partial_cmp(&y), x < y, x.cmp(&y) for y of the same alias
Compare ==
    \E v \in Vals, o \in {"eq", "partial_cmp", "lt", "cmp"} :
        LET y == unchecked_from_inner(TagOf(alias), v) IN
        /\ x # Moved
        /\ out' = CASE o = "eq" -> eq(x, y)
                    [] o = "partial_cmp" -> partial_cmp(x, y)
                    [] o = "lt" -> lt(x, y)
                    [] o = "cmp" -> cmp(x, y)
        /\ op' = o /\ arg' = v
        /\ UNCHANGED <<alias, x, written, mutated>>

\* x.hash(&mut state);
Hash ==
    \E state \in HasherStates :
        /\ x # Moved
        /\ out' = hash(x, state)
        /\ op' = "hash" /\ arg' = state
        /\ UNCHANGED <<alias, x, written, mutated>>

\* format!("{x:?}") and format!("{x:#?}")
Fmt ==
    \E alternate \in BOOLEAN :
        /\ x # Moved
        /\ out' = fmt(x, Formatter(alternate)).buf
        /\ op' = "fmt" /\ arg' = alternate
        /\ UNCHANGED <<alias, x, written, mutated>>

\* serde_json::to_string(&x)
Serialize ==
    /\ x # Moved
    /\ out' = to_string(x)
    /\ op' = "serialize" /\ arg' = Moved
    /\ UNCHANGED <<alias, x, written, mutated>>

\* if let Ok(y) = serde_json::from_str::<Alias>(w) { x = y }
Deserialize ==
    \E w \in RawWires :
        LET r == from_str(TagOf(alias), w)
            i == i32_from_str(w)
        IN  /\ i[1] = "Ok" => i[2] \in Vals
            /\ out' = r
            /\ x' = IF r[1] = "Ok" THEN r[2] ELSE x
            /\ written' = IF i[1] = "Ok" THEN i[2] ELSE written
            /\ mutated' = (i[1] # "Ok" /\ mutated)
            /\ op' = "deserialize" /\ arg' = w
            /\ UNCHANGED alias

\* test_serialize_deserialize with t = Test { id: x, other }
SerdeTest ==
    \E other \in Others :
        LET t    == Test(x, other)
            json == Test_to_string(t)
        IN  /\ x # Moved
            /\ out' = [json      |-> json,
                       plain     |-> PlainTest_to_string(Test(written, other)),
                       recovered |-> Test_from_str(TagOf(alias), json)]
            /\ op' = "serde_test" /\ arg' = other
            /\ UNCHANGED <<alias, x, written, mutated>>

\* <Alias as Type<Db>>::type_info() and <Alias as Type<Db>>::compatible(&ty)
TypeInfo ==
    \E db \in Dbs :
        /\ out' = type_info(db)
        /\ op' = "type_info" /\ arg' = db
        /\ UNCHANGED <<alias, x, written, mutated>>

Compatible ==
    \E db \in Dbs : \E ty \in TypeInfos(db) :
        /\ out' = compatible(db, ty)
        /\ op' = "compatible" /\ arg' = <<db, ty>>
        /\ UNCHANGED <<alias, x, written, mutated>>

\* x.encode_by_ref(&mut buf)
Encode ==
    \E db \in Dbs, buf \in ArgumentBuffers :
        /\ x # Moved
        /\ out' = encode_by_ref(x, db, buf)
        /\ op' = "encode" /\ arg' = <<db, buf>>
        /\ UNCHANGED <<alias, x, written, mutated>>

\* if let Ok(y) = <Alias as Decode<Db>>::decode(value) { x = y }
Decode ==
    \E value \in ValueRefs :
        LET r == decode(TagOf(alias), value)
            i == i32_decode(value)
        IN  /\ i[1] = "Ok" => i[2] \in Vals
            /\ out' = r
            /\ x' = IF r[1] = "Ok" THEN r[2] ELSE x
            /\ written' = IF i[1] = "Ok" THEN i[2] ELSE written
            /\ mutated' = (i[1] # "Ok" /\ mutated)
            /\ op' = "decode" /\ arg' = value
            /\ UNCHANGED alias

Next ==
    \/ UncheckedFromInner
    \/ Default
    \/ IntoInner
    \/ AsRef
    \/ AsMut
    \/ Compare
    \/ Hash
    \/ Fmt
    \/ Serialize
    \/ Deserialize
    \/ SerdeTest
    \/ TypeInfo
    \/ Compatible
    \/ Encode
    \/ Decode

Spec == Init /\ [][Next]_vars

\* The container and the forwarded traits of lib.rs.
NextCore ==
    \/ UncheckedFromInner
    \/ Default
    \/ IntoInner
    \/ AsRef
    \/ AsMut
    \/ Compare
    \/ Hash
    \/ Fmt

SpecCore == Init /\ [][NextCore]_vars

\* The serde adapter.
NextSerde ==
    \/ UncheckedFromInner
    \/ Serialize
    \/ Deserialize
    \/ SerdeTest

SpecSerde == Init /\ [][NextSerde]_vars

\* The sqlx adapter.
NextSqlx ==
    \/ UncheckedFromInner
    \/ TypeInfo
    \/ Compatible
    \/ Encode
    \/ Decode

SpecSqlx == Init /\ [][NextSqlx]_vars

\* Every way a Brand value comes to be, is viewed and is taken apart.
NextDecode ==
    \/ UncheckedFromInner
    \/ Default
    \/ IntoInner
    \/ AsRef
    \/ AsMut
    \/ Deserialize
    \/ Decode

SpecDecode == Init /\ [][NextDecode]_vars

----------------------------------------------------------------------------
(* Properties. *)

\* The source identifier of the alias x is declared with.
AliasIdent == Decls[alias].tag

Holds == x # Moved

\* C1: for every Inner value v, negative ones included, unchecked_from_inner(v)
\* yields a Brand holding exactly v, and into_inner of it gives v back.
C1_UncheckedRoundTrip ==
    /\ \A v \in Vals : into_inner(unchecked_from_inner(TagOf(alias), v)) = v
    /\ op = "unchecked_from_inner" =>
           Holds /\ x.inner = arg /\ into_inner(x) = arg /\ out = x

C1_Witness == op = "unchecked_from_inner" /\ arg < 0 /\ into_inner(x) = arg

\* C3 as stated: Debug formatting of a branded value is always the alias's source
\* identifier, "(", Inner's formatting of the value, ")".
C3_DebugIsCompact ==
    op = "fmt" => out = AliasIdent \o <<"(">> \o i32_to_string(written) \o <<")">>

\* C3 amended: that holds of the plain form {:?} (so TestId over i32 with value 10
\* gives "TestId(10)"); the alternate form {:#?} gives the identifier, "(", a line
\* break, Inner's formatting indented by four spaces, ",", a line break and ")".
C3_Debug ==
    /\ (op = "fmt" /\ ~arg) =>
           out = AliasIdent \o <<"(">> \o i32_to_string(written) \o <<")">>
    /\ (op = "fmt" /\ arg) =>
           out = AliasIdent \o <<"(", "\n", " ", " ", " ", " ">>
                     \o i32_to_string(written) \o <<",", "\n", ")">>
    /\ (op = "fmt" /\ ~arg /\ alias = 1 /\ written = 10) =>
           out = <<"T", "e", "s", "t", "I", "d", "(", "1", "0", ")">>

C3_Witness ==
    op = "fmt" /\ ~arg /\ out = <<"T", "e", "s", "t", "I", "d", "(", "1", "0", ")">>

\* C5: ==, <, partial_cmp and cmp on two Brands of one alias return what the same
\* comparison returns on their inner values, whatever the alias.
C5_Comparisons ==
    /\ op = "eq" => out = (written = arg)
    /\ op = "lt" => out = (written < arg)
    /\ op = "partial_cmp" => out = i32_partial_cmp(written, arg)
    /\ op = "cmp" => out = i32_cmp(written, arg)

C5_Witness == op = "lt" /\ out = TRUE /\ written < arg /\ alias = 2

\* C6: hashing a Brand leaves the hasher as hashing its inner value does, with
\* nothing from the marker, so Brands of equal inner values hash alike.
C6_Hash ==
    op = "hash" =>
        /\ out = i32_hash(written, arg)
        /\ \A v \in Vals :
               v = written => hash(unchecked_from_inner(TagOf(alias), v), arg) = out

C6_Witness == op = "hash" /\ arg # <<>> /\ out = Append(arg, <<"write_i32", written>>)

\* C7: Brand::default() wraps Inner's default value: its into_inner is
\* Inner::default().
C7_Default ==
    op = "default" => Holds /\ out = x /\ into_inner(x) = i32_default

C7_Witness == op = "default" /\ into_inner(x) = 0

\* C10: x holds the value last written into it (by construction or through
\* as_mut), as_ref and into_inner yield that value, reads leave it alone, and
\* the marker of x stays that of its alias.
C10_Frame ==
    /\ Holds => x.inner = written /\ x.tag = TagOf(alias)
    /\ op = "as_ref" => out = written
    /\ op = "as_mut" => Holds /\ x.inner = arg
    /\ op = "into_inner" => out = arg /\ ~Holds

C10_Witness == op = "as_ref" /\ mutated /\ out = written

\* C4: a Brand serializes to what its inner value serializes to; the Test
\* structure with a branded id serializes like the one with a plain id, and
\* deserializing that text gives back an equal structure with the same inner id.
C4_Serde ==
    /\ op = "serialize" => out = i32_to_string_json(written)
    /\ op = "serde_test" =>
           /\ out.json = out.plain
           /\ out.recovered = Ok(Test(x, arg))
           /\ into_inner(out.recovered[2].id) = written
           /\ eq(out.recovered[2].id, x)

C4_Witness ==
    /\ op = "serde_test"
    /\ arg = <<"o", "l", "á">>
    /\ out.json = <<"{">> \o KeyId \o <<"1", "0", ",">> \o KeyOther
                      \o <<Quote, "o", "l", "á", Quote, "}">>
    /\ out.recovered = Ok(Test(x, arg))

C9_ColumnCodec ==
    /\ op = "type_info" => out = i32_type_info(arg)
    /\ op = "compatible" => out = i32_compatible(arg[1], arg[2])
    /\ op = "encode" => out = i32_encode_by_ref(written, arg[1], arg[2])
    /\ op = "decode" =>
           LET i == i32_decode(arg)
           IN out = IF i[1] = "Ok" THEN Ok(Brand(TagOf(alias), i[2])) ELSE i

====
